---- MODULE Spec2Model ----
(***************************************************************************)
(* Model of Formular.py: a Tkinter registration form.                      *)
(*                                                                         *)
(* Text is modelled as a sequence of one-character strings, so that        *)
(* str.strip(), the "in" operator and int() are computed character by      *)
(* character as Python computes them.  The state is the content of the     *)
(* four StringVar objects and of the Text widget, together with a record   *)
(* of what the last button callback did (dialogs shown, value returned by  *)
(* parse_form_data, widget contents when the callback started).            *)
(*                                                                         *)
(* int() is modelled by its grammar (optional sign, decimal digits, single *)
(* underscores between digits).  The interpreter's limit on the number of  *)
(* digits of a str -> int conversion (4300 digits by default in recent     *)
(* CPython releases) lies far outside the inputs enumerated here and is    *)
(* not modelled.                                                           *)
(***************************************************************************)
EXTENDS Integers, Sequences, FiniteSets, TLC

VARIABLES variables, text_widget, handler, calls, returned, before

vars == <<variables, text_widget, handler, calls, returned, before>>

(***************************************************************************)
(* Bounds of the enumerated inputs.                                        *)
(***************************************************************************)
\* Age texts include the decimal rendering of every integer in -MaxAge..MaxAge.
MaxAge == 11

(***************************************************************************)
(* Python string primitives.                                               *)
(***************************************************************************)
\* Characters str.strip() removes that occur in the enumerated inputs.
Whitespace == {" ", "\t", "\n"}

Digits == {"0", "1", "2", "3", "4", "5", "6", "7", "8", "9"}

DigitValue ==
    "0" :> 0 @@ "1" :> 1 @@ "2" :> 2 @@ "3" :> 3 @@ "4" :> 4 @@
    "5" :> 5 @@ "6" :> 6 @@ "7" :> 7 @@ "8" :> 8 @@ "9" :> 9

RECURSIVE lstrip(_)
lstrip(s) ==
    IF s # <<>> /\ Head(s) \in Whitespace THEN lstrip(Tail(s)) ELSE s

RECURSIVE rstrip(_)
rstrip(s) ==
    IF s # <<>> /\ s[Len(s)] \in Whitespace
    THEN rstrip(SubSeq(s, 1, Len(s) - 1))
    ELSE s

\* strip as str.lstrip: trailing whitespace kept.
strip_leading_only(s) == lstrip(s)

\* str.strip(): leading and trailing whitespace removed, the inside kept.
strip(s) == rstrip(lstrip(s))

\* c in s, for a one-character c.
contains(c, s) == \E i \in DOMAIN s : s[i] = c

\* The digits of an int() literal body, left to right, underscores skipped.
RECURSIVE digits_value(_, _)
digits_value(s, acc) ==
    IF s = <<>> THEN acc
    ELSE IF Head(s) = "_" THEN digits_value(Tail(s), acc)
    ELSE digits_value(Tail(s), 10 * acc + DigitValue[Head(s)])

\* int with the sign read but not applied.
int_sign_dropped(text) ==
    LET s    == rstrip(lstrip(text))
        body == IF s # <<>> /\ Head(s) \in {"+", "-"} THEN Tail(s) ELSE s
        wellformed ==
            /\ body # <<>>
            /\ \A i \in DOMAIN body : body[i] \in Digits \cup {"_"}
            /\ body[1] \in Digits
            /\ body[Len(body)] \in Digits
            /\ \A i \in 1..(Len(body) - 1) : ~(body[i] = "_" /\ body[i + 1] = "_")
    IN  IF wellformed
        THEN [ok |-> TRUE, value |-> digits_value(body, 0)]
        ELSE [ok |-> FALSE, value |-> 0]

\* int(text): [ok |-> FALSE] stands for the ValueError int() raises.
int_(text) ==
    LET s    == strip(text)
        neg  == s # <<>> /\ Head(s) = "-"
        body == IF s # <<>> /\ Head(s) \in {"+", "-"} THEN Tail(s) ELSE s
        wellformed ==
            /\ body # <<>>
            /\ \A i \in DOMAIN body : body[i] \in Digits \cup {"_"}
            /\ body[1] \in Digits
            /\ body[Len(body)] \in Digits
            /\ \A i \in 1..(Len(body) - 1) : ~(body[i] = "_" /\ body[i + 1] = "_")
    IN  IF wellformed
        THEN [ok |-> TRUE,
              value |-> IF neg THEN 0 - digits_value(body, 0) ELSE digits_value(body, 0)]
        ELSE [ok |-> FALSE, value |-> 0]

(***************************************************************************)
(* Widgets.                                                                *)
(***************************************************************************)
Labels == {"Vorname", "Nachname", "E-Mail", "Alter"}

\* Text.get("1.0", END): the content followed by the newline Tk keeps at the end.
text_get(text) == text \o <<"\n">>

\* Text.delete("1.0", END)
text_delete(text) == <<>>

(***************************************************************************)
(* parse_form_data                                                         *)
(***************************************************************************)
MissingRequiredField == "Bitte füllen Sie alle Pflichtfelder aus."
InvalidEmailFormat == "Bitte geben Sie eine gültige E-Mail-Adresse ein."
InvalidAge == "Alter muss eine positive Zahl sein."

RegistrationData(first_name, last_name, email, age, comments) ==
    [first_name |-> first_name, last_name |-> last_name, email |-> email,
     age |-> age, comments |-> comments]

\* The required-field check with the age text left out of the list.
all_required_without_age(first_name, last_name, email, age_text) ==
    /\ first_name # <<>>
    /\ last_name # <<>>
    /\ email # <<>>

\* all([first_name, last_name, email, age_text]): a str is true iff non-empty.
all_required(first_name, last_name, email, age_text) ==
    /\ first_name # <<>>
    /\ last_name # <<>>
    /\ email # <<>>
    /\ age_text # <<>>

\* The e-mail check with "and" in place of "or".
email_rejected_and(email) == ~contains("@", email) /\ ~contains(".", email)

\* The condition under which the e-mail check raises.
email_rejected(email) == ~contains("@", email) \/ ~contains(".", email)

\* The try block with "age < 0" in place of "age <= 0".
parse_age_zero_allowed(age_text) ==
    LET r == int_(age_text)
    IN  IF ~r.ok THEN <<>>
        ELSE IF r.value < 0 THEN <<>>
        ELSE <<r.value>>

\* The try block: <<age>> when it falls through, <<>> when it raises.
parse_age(age_text) ==
    LET r == int_(age_text)
    IN  IF ~r.ok THEN <<>>
        ELSE IF r.value <= 0 THEN <<>>
        ELSE <<r.value>>

\* The outcome of a call: the widget contents it leaves, the ValueError it
\* raised (<<message>> or <<>>) and the value it returned (<<data>> or <<>>).
Outcome(v, t, raised, result) ==
    [variables |-> v, text_widget |-> t, raised |-> raised, result |-> result]

\* parse_form_data writing the trimmed texts back into the StringVars.
parse_form_data_writes_back(v, t) ==
    LET first_name == strip(v["Vorname"])
        last_name  == strip(v["Nachname"])
        email      == strip(v["E-Mail"])
        age_text   == strip(v["Alter"])
        comments   == strip(text_get(t))
        w == [l \in DOMAIN v |-> strip(v[l])]
    IN  IF ~all_required(first_name, last_name, email, age_text)
        THEN Outcome(w, t, <<MissingRequiredField>>, <<>>)
        ELSE IF email_rejected(email)
        THEN Outcome(w, t, <<InvalidEmailFormat>>, <<>>)
        ELSE IF parse_age(age_text) = <<>>
        THEN Outcome(w, t, <<InvalidAge>>, <<>>)
        ELSE Outcome(w, t, <<>>,
                     <<RegistrationData(first_name, last_name, email,
                                        parse_age(age_text)[1], comments)>>)

parse_form_data(v, t) ==
    LET first_name == strip(v["Vorname"])
        last_name  == strip(v["Nachname"])
        email      == strip(v["E-Mail"])
        age_text   == strip(v["Alter"])
        comments   == strip(text_get(t))
    IN  IF ~all_required(first_name, last_name, email, age_text)
        THEN Outcome(v, t, <<MissingRequiredField>>, <<>>)
        ELSE IF email_rejected(email)
        THEN Outcome(v, t, <<InvalidEmailFormat>>, <<>>)
        ELSE IF parse_age(age_text) = <<>>
        THEN Outcome(v, t, <<InvalidAge>>, <<>>)
        ELSE Outcome(v, t, <<>>,
                     <<RegistrationData(first_name, last_name, email,
                                        parse_age(age_text)[1], comments)>>)

(***************************************************************************)
(* reset_form and handle_submit                                            *)
(***************************************************************************)
\* reset_form without the delete on the Text widget.
reset_form_keeps_comments(v, t) ==
    [variables |-> [l \in DOMAIN v |-> <<>>], text_widget |-> t]

reset_form(v, t) ==
    [variables |-> [l \in DOMAIN v |-> <<>>], text_widget |-> text_delete(t)]

showerror(title, message) == [fn |-> "showerror", title |-> title, message |-> message]

showinfo(title, message) == [fn |-> "showinfo", title |-> title, message |-> message]

ResetCall == [fn |-> "reset_form", title |-> "", message |-> ""]

\* The message template filled in by str.format.
success_message(data) ==
    <<"Vielen Dank, ", data.first_name, " ", data.last_name, "!\n\n",
      "Wir haben Ihre Daten erhalten und melden uns unter ", data.email, ".">>

\* handle_submit without the "return" of the except branch: the error path
\* falls through to reset_form.
handle_submit_resets_on_error(v, t) ==
    LET p == parse_form_data(v, t)
        r == [variables |-> [l \in DOMAIN v |-> <<>>], text_widget |-> <<>>]
    IN  IF p.raised # <<>>
        THEN [variables |-> r.variables, text_widget |-> r.text_widget,
              calls |-> <<showerror("Fehler", p.raised[1]), ResetCall>>,
              raised |-> p.raised, result |-> p.result]
        ELSE [variables |-> r.variables, text_widget |-> r.text_widget,
              calls |-> <<showinfo("Erfolg", success_message(p.result[1])), ResetCall>>,
              raised |-> p.raised, result |-> p.result]

\* handle_submit without the trailing call of reset_form.
handle_submit_without_reset(v, t) ==
    LET p == parse_form_data(v, t)
    IN  IF p.raised # <<>>
        THEN [variables |-> p.variables, text_widget |-> p.text_widget,
              calls |-> <<showerror("Fehler", p.raised[1])>>,
              raised |-> p.raised, result |-> p.result]
        ELSE [variables |-> p.variables, text_widget |-> p.text_widget,
              calls |-> <<showinfo("Erfolg", success_message(p.result[1]))>>,
              raised |-> p.raised, result |-> p.result]

\* handle_submit swallowing the ValueError without a dialog.
handle_submit_silent_error(v, t) ==
    LET p == parse_form_data(v, t)
    IN  IF p.raised # <<>>
        THEN [variables |-> p.variables, text_widget |-> p.text_widget,
              calls |-> <<>>,
              raised |-> p.raised, result |-> p.result]
        ELSE [variables |-> [l \in DOMAIN v |-> <<>>], text_widget |-> <<>>,
              calls |-> <<showinfo("Erfolg", success_message(p.result[1])), ResetCall>>,
              raised |-> p.raised, result |-> p.result]

\* The widget contents handle_submit leaves, the calls it made in order and
\* what parse_form_data gave it.
handle_submit(v, t) ==
    LET p == parse_form_data(v, t)
    IN  IF p.raised # <<>>
        THEN [variables |-> p.variables, text_widget |-> p.text_widget,
              calls |-> <<showerror("Fehler", p.raised[1])>>,
              raised |-> p.raised, result |-> p.result]
        ELSE LET r == reset_form(p.variables, p.text_widget)
             IN  [variables |-> r.variables, text_widget |-> r.text_widget,
                  calls |-> <<showinfo("Erfolg", success_message(p.result[1])), ResetCall>>,
                  raised |-> p.raised, result |-> p.result]

(***************************************************************************)
(* Inputs the user types.                                                  *)
(***************************************************************************)
\* str(n) for an integer n.
RECURSIVE nat_text(_)
nat_text(n) ==
    LET d == CHOOSE c \in Digits : DigitValue[c] = n % 10
    IN  IF n < 10 THEN <<d>> ELSE Append(nat_text(n \div 10), d)

int_text(n) == IF n < 0 THEN <<"-">> \o nat_text(0 - n) ELSE nat_text(n)

FirstNameInputs ==
    { <<>>, <<" ">>, <<"A">>, <<" ", "A", "\t">>, <<"A", " ", "B">> }

LastNameInputs ==
    { <<>>, <<"\t">>, <<"M">>, <<"M", " ">>, <<" ", "M">> }

EmailInputs ==
    { <<>>, <<" ">>, <<"a">>, <<"a", "@", "b">>, <<"a", ".", "b">>,
      <<".", "@">>, <<"a", "@", "b", ".", "c">>,
      <<" ", "a", "@", "b", ".", "c", " ">> }

AgeInputs ==
    { int_text(n) : n \in (0 - MaxAge)..MaxAge } \cup
    { <<>>, <<" ">>, <<"x">>, <<"3", "x">>, <<"-">>, <<"-", "0">>,
      <<"+", "5">>, <<"0", "7">>, <<"1", "_", "0">>, <<"1", "_">>,
      <<"_", "1">>, <<"1", "_", "_", "0">>, <<"1", " ", "0">>,
      <<"1", ".", "5">>, <<" ", "3", "0", "\t">>, <<" ", "-", "5", " ">> }

CommentInputs ==
    { <<>>, <<" ">>, <<"o", "k">>, <<" ", "o", " ", "k", "\n">> }

EntryInputs ==
    [l \in Labels |->
        CASE l = "Vorname"  -> FirstNameInputs
          [] l = "Nachname" -> LastNameInputs
          [] l = "E-Mail"   -> EmailInputs
          [] l = "Alter"    -> AgeInputs]

Widgets(v, t) == [variables |-> v, text_widget |-> t]

(***************************************************************************)
(* The running application: the user edits a control or presses a button.  *)
(***************************************************************************)
Init ==
    /\ variables = [l \in Labels |-> <<>>]
    /\ text_widget = <<>>
    /\ handler = "none"
    /\ calls = <<>>
    /\ returned = <<>>
    /\ before = Widgets([l \in Labels |-> <<>>], <<>>)

\* The user replaces the content of one entry.
EditEntry ==
    \E l \in Labels : \E s \in EntryInputs[l] :
        /\ variables' = [variables EXCEPT ![l] = s]
        /\ text_widget' = text_widget
        /\ handler' = "edit"
        /\ calls' = <<>>
        /\ returned' = <<>>
        /\ before' = Widgets(variables', text_widget')

\* The user replaces the content of the comment box.
EditComments ==
    \E s \in CommentInputs :
        /\ text_widget' = s
        /\ variables' = variables
        /\ handler' = "edit"
        /\ calls' = <<>>
        /\ returned' = <<>>
        /\ before' = Widgets(variables', text_widget')

\* Outcomes of the calls of parse_form_data since the last edit or reset,
\* the two most recent ones kept.
Record(outcomes, o) ==
    IF Len(outcomes) < 2 THEN Append(outcomes, o) ELSE <<outcomes[2], o>>

\* Button "Absenden".
Absenden ==
    LET h == handle_submit(variables, text_widget)
    IN  /\ variables' = h.variables
        /\ text_widget' = h.text_widget
        /\ handler' = "handle_submit"
        /\ calls' = h.calls
        /\ returned' = Record(returned, [raised |-> h.raised, result |-> h.result])
        /\ before' = Widgets(variables, text_widget)

\* Button "Zurücksetzen".
Zuruecksetzen ==
    LET r == reset_form(variables, text_widget)
    IN  /\ variables' = r.variables
        /\ text_widget' = r.text_widget
        /\ handler' = "reset_form"
        /\ calls' = <<>>
        /\ returned' = <<>>
        /\ before' = Widgets(variables, text_widget)

Next == EditEntry \/ EditComments \/ Absenden \/ Zuruecksetzen

Spec == Init /\ [][Next]_vars

(***************************************************************************)
(* parse_form_data on its own: every combination of the enumerated inputs, *)
(* validated up to twice in a row.                                         *)
(***************************************************************************)
InitValidate ==
    /\ variables \in [Labels -> UNION {EntryInputs[l] : l \in Labels}]
    /\ \A l \in Labels : variables[l] \in EntryInputs[l]
    /\ text_widget \in CommentInputs
    /\ handler = "none"
    /\ calls = <<>>
    /\ returned = <<>>
    /\ before = Widgets(variables, text_widget)

Validate ==
    LET p == parse_form_data(variables, text_widget)
    IN  /\ Len(returned) < 2
        /\ variables' = p.variables
        /\ text_widget' = p.text_widget
        /\ handler' = "parse_form_data"
        /\ calls' = <<>>
        /\ returned' = Append(returned, [raised |-> p.raised, result |-> p.result])
        /\ before' = before

NextValidate == Validate

SpecValidate == InitValidate /\ [][NextValidate]_vars

(***************************************************************************)
(* Vocabulary of the properties, stated without the operators above.       *)
(***************************************************************************)
Range(s) == { s[i] : i \in DOMAIN s }

\* Empty or whitespace-only.
IsBlank(s) == Range(s) \subseteq Whitespace

\* s from its first to its last non-whitespace character.
Trimmed(s) ==
    IF IsBlank(s) THEN <<>>
    ELSE LET first == CHOOSE i \in DOMAIN s :
                        s[i] \notin Whitespace /\ \A j \in 1..(i - 1) : s[j] \in Whitespace
             last  == CHOOSE i \in DOMAIN s :
                        s[i] \notin Whitespace /\ \A j \in (i + 1)..Len(s) : s[j] \in Whitespace
         IN  [k \in 1..(last - first + 1) |-> s[first + k - 1]]

NoOuterWhitespace(s) == s # <<>> /\ s[1] \notin Whitespace /\ s[Len(s)] \notin Whitespace

\* Integers written in a form other than str(n), or outside -MaxAge..MaxAge,
\* that occur among the age texts.
OtherNumerals ==
    <<"-", "0">> :> 0 @@ <<"+", "5">> :> 5 @@ <<"0", "7">> :> 7 @@
    <<"1", "_", "0">> :> 10 @@ <<"3", "0">> :> 30

\* The integer an age text denotes: <<n>>, or <<>> when it denotes none.
Denoted(s) ==
    LET t == Trimmed(s)
    IN  IF \E n \in (0 - MaxAge)..MaxAge : t = int_text(n)
        THEN <<CHOOSE n \in (0 - MaxAge)..MaxAge : t = int_text(n)>>
        ELSE IF t \in DOMAIN OtherNumerals THEN <<OtherNumerals[t]>>
        ELSE <<>>

RequiredBlank(w) == \E l \in Labels : IsBlank(w.variables[l])

EmailMalformed(w) ==
    \/ "@" \notin Range(Trimmed(w.variables["E-Mail"]))
    \/ "." \notin Range(Trimmed(w.variables["E-Mail"]))

AgeInvalid(w) ==
    \/ Denoted(w.variables["Alter"]) = <<>>
    \/ Denoted(w.variables["Alter"])[1] <= 0

ValidInput(w) == ~RequiredBlank(w) /\ ~EmailMalformed(w) /\ ~AgeInvalid(w)

\* What a call that raised ValueError(message) leaves in `returned`.
Raised(message) == [raised |-> <<message>>, result |-> <<>>]

\* What a call that returned data leaves in `returned`.
Returned(data) == [raised |-> <<>>, result |-> <<data>>]

AllEmpty(w) == (\A l \in Labels : w.variables[l] = <<>>) /\ w.text_widget = <<>>

Now == Widgets(variables, text_widget)

Dialogs == { i \in DOMAIN calls : calls[i].fn \in {"showerror", "showinfo"} }

(***************************************************************************)
(* Properties of parse_form_data, checked under SpecValidate, where        *)
(* `before` holds the validated input and `returned` what each call gave.  *)
(***************************************************************************)

\* C1: whenever one of first name, last name, e-mail or age text is empty or
\* whitespace-only, parse_form_data raises the missing-required-field error,
\* whatever the other fields contain.
C1_MissingRequiredField ==
    \A i \in DOMAIN returned :
        RequiredBlank(before) => returned[i] = Raised(MissingRequiredField)

\* A whitespace-only first name was validated together with a malformed
\* e-mail and an invalid age.
C1_Witness ==
    /\ returned # <<>>
    /\ before.variables["Vorname"] # <<>>
    /\ IsBlank(before.variables["Vorname"])
    /\ ~IsBlank(before.variables["E-Mail"])
    /\ EmailMalformed(before)
    /\ ~IsBlank(before.variables["Alter"])
    /\ AgeInvalid(before)

\* C2: when the four required fields are non-blank and the trimmed e-mail
\* lacks "@" or lacks ".", parse_form_data raises the e-mail error whatever
\* the age text is; an invalid age is never reported ahead of it.
C2_InvalidEmailFormat ==
    \A i \in DOMAIN returned :
        (~RequiredBlank(before) /\ EmailMalformed(before))
            => returned[i] = Raised(InvalidEmailFormat)

\* An e-mail with "@" but without "." was validated together with an invalid age.
C2_Witness ==
    /\ returned # <<>>
    /\ ~RequiredBlank(before)
    /\ "@" \in Range(before.variables["E-Mail"])
    /\ "." \notin Range(before.variables["E-Mail"])
    /\ AgeInvalid(before)

\* C3: when the required-field and e-mail rules pass and the age text denotes
\* no integer, or denotes zero or a negative integer, parse_form_data raises
\* the age error and returns no RegistrationData.
C3_InvalidAge ==
    \A i \in DOMAIN returned :
        (~RequiredBlank(before) /\ ~EmailMalformed(before) /\ AgeInvalid(before))
            => returned[i] = Raised(InvalidAge)

\* An age text denoting zero was validated with the other rules passing.
C3_Witness ==
    /\ returned # <<>>
    /\ ~RequiredBlank(before)
    /\ ~EmailMalformed(before)
    /\ Denoted(before.variables["Alter"]) = <<0>>

\* C4: when all three rules pass, parse_form_data returns a RegistrationData
\* holding the trimmed first name, last name, e-mail and comments and the
\* integer the age text denotes; and whether it raises, and what, is the same
\* for every comment text.
C4_Success ==
    \A i \in DOMAIN returned :
        /\ ValidInput(before) =>
              returned[i] =
                  Returned(RegistrationData(
                      Trimmed(before.variables["Vorname"]),
                      Trimmed(before.variables["Nachname"]),
                      Trimmed(before.variables["E-Mail"]),
                      Denoted(before.variables["Alter"])[1],
                      Trimmed(before.text_widget)))
        /\ \A c \in CommentInputs :
              parse_form_data(before.variables, c).raised = returned[i].raised

\* A valid input with padded names, e-mail and comments and a two-digit age
\* was validated.
C4_Witness ==
    /\ returned # <<>>
    /\ ValidInput(before)
    /\ before.variables["Vorname"] # Trimmed(before.variables["Vorname"])
    /\ before.variables["Nachname"] # Trimmed(before.variables["Nachname"])
    /\ before.variables["E-Mail"] # Trimmed(before.variables["E-Mail"])
    /\ before.text_widget # Trimmed(before.text_widget)
    /\ Trimmed(before.text_widget) # <<>>
    /\ Denoted(before.variables["Alter"])[1] >= 10

\* C9: parse_form_data leaves the five field contents as they were, whether it
\* raises or returns, and a second call on the same contents gives what the
\* first call gave.
C9_Pure ==
    /\ returned # <<>> => Now = before
    /\ Len(returned) = 2 => returned[1] = returned[2]

\* A padded valid input was validated twice.
C9_Witness ==
    /\ Len(returned) = 2
    /\ returned[2].result # <<>>
    /\ before.variables["Nachname"] # Trimmed(before.variables["Nachname"])

(***************************************************************************)
(* Properties of the running application, checked under Spec, where        *)
(* `before` holds the contents when the last callback started.             *)
(***************************************************************************)

\* C5: every RegistrationData returned has a non-empty first and last name
\* without leading or trailing whitespace, a non-empty e-mail containing "@"
\* and ".", and an integer age > 0; and none is returned for contents that
\* fail a validation rule.
C5_RecordConstraints ==
    /\ \A i \in DOMAIN returned :
          returned[i].result # <<>> =>
              LET d == returned[i].result[1]
              IN  /\ Len(returned[i].result) = 1
                  /\ NoOuterWhitespace(d.first_name)
                  /\ NoOuterWhitespace(d.last_name)
                  /\ d.email # <<>>
                  /\ {"@", "."} \subseteq Range(d.email)
                  /\ d.age \in Nat
                  /\ d.age > 0
    /\ (handler = "handle_submit" /\ ~ValidInput(before))
          => returned[Len(returned)].result = <<>>

\* A submit of padded valid contents returned a record.
C5_Witness ==
    /\ handler = "handle_submit"
    /\ returned[Len(returned)].result # <<>>
    /\ before.variables["Vorname"] # Trimmed(before.variables["Vorname"])

\* C6: a submit whose validation fails leaves the four entries and the comment
\* box exactly as they were: it shows the error dialog and does not call
\* reset_form.
C6_ErrorKeepsFields ==
    (handler = "handle_submit" /\ returned[Len(returned)].raised # <<>>)
        => /\ Now = before
           /\ \A i \in DOMAIN calls : calls[i].fn # "reset_form"
           /\ \E i \in DOMAIN calls : calls[i].fn = "showerror"

\* A submit failed on the age rule with all five controls filled in.
C6_Witness ==
    /\ handler = "handle_submit"
    /\ returned[Len(returned)] = Raised(InvalidAge)
    /\ \A l \in Labels : before.variables[l] # <<>>
    /\ before.text_widget # <<>>

\* C7: a submit whose validation succeeds shows the info dialog and then
\* resets: when it returns all five controls are empty, and a submit that
\* follows it with no edit in between raises the missing-required-field error.
C7_SuccessResets ==
    /\ (handler = "handle_submit" /\ returned[Len(returned)].result # <<>>)
          => /\ Len(calls) = 2
             /\ calls[1].fn = "showinfo"
             /\ calls[2].fn = "reset_form"
             /\ AllEmpty(Now)
    /\ (Len(returned) = 2 /\ returned[1].result # <<>>)
          => returned[2] = Raised(MissingRequiredField)

\* A successful submit of contents with a comment was followed at once by
\* another submit.
C7_Witness ==
    /\ handler = "handle_submit"
    /\ Len(returned) = 2
    /\ returned[1].result # <<>>
    /\ returned[1].result[1].comments # <<>>

\* C8: reset_form leaves all five controls empty and shows no dialog, whatever
\* the contents were; a reset of an already reset form changes nothing.
C8_Reset ==
    handler = "reset_form"
        => /\ AllEmpty(Now)
           /\ Dialogs = {}
           /\ reset_form(variables, text_widget) = Now

\* Reset was pressed with all five controls filled in, the e-mail malformed.
C8_Witness ==
    /\ handler = "reset_form"
    /\ \A l \in Labels : before.variables[l] # <<>>
    /\ before.text_widget # <<>>
    /\ EmailMalformed(before)

\* C10: every submit shows exactly one dialog: the error dialog, titled
\* "Fehler" and carrying the message of the first rule that fails, iff the
\* contents fail validation, and the info dialog, titled "Erfolg", iff they
\* pass; the fields are cleared only by the submit that shows the info dialog.
C10_OneDialog ==
    handler = "handle_submit"
        => /\ Cardinality(Dialogs) = 1
           /\ \A i \in Dialogs :
                 /\ calls[i].fn = "showerror" <=> ~ValidInput(before)
                 /\ calls[i].fn = "showinfo" <=> ValidInput(before)
                 /\ calls[i].fn = "showerror" =>
                       /\ calls[i].title = "Fehler"
                       /\ calls[i].message =
                             IF RequiredBlank(before) THEN MissingRequiredField
                             ELSE IF EmailMalformed(before) THEN InvalidEmailFormat
                             ELSE InvalidAge
                 /\ calls[i].fn = "showinfo" => calls[i].title = "Erfolg"
           /\ (\E i \in DOMAIN calls : calls[i].fn = "reset_form") <=> ValidInput(before)
           /\ Now # before => ValidInput(before)

\* A submit with a malformed e-mail and an invalid age showed a dialog.
C10_Witness ==
    /\ handler = "handle_submit"
    /\ Dialogs # {}
    /\ ~RequiredBlank(before)
    /\ EmailMalformed(before)
    /\ AgeInvalid(before)

TypeOK ==
    /\ \A l \in Labels : variables[l] \in EntryInputs[l]
    /\ text_widget \in CommentInputs
    /\ handler \in {"none", "edit", "handle_submit", "reset_form", "parse_form_data"}
    /\ Len(calls) <= 2
    /\ Len(returned) <= 2
====
